---- MODULE Spec2Model ----
(***************************************************************************)
(* The expense tracker screen of src/Main.js: the React state of Main, the *)
(* expenses table behind expo-sqlite, the asynchronous handlers            *)
(* (saveExpense, loadExpenses, deleteTask, setup) and the two pure         *)
(* computations of every render (getFilteredExpenses, calculateTotals).    *)
(*                                                                         *)
(* Texts are sequences of one-character strings.  A JavaScript Number is   *)
(* a record [k, neg, mag]: k is "num", "nan" or "null" (the SQL NULL a row *)
(* may carry), mag the magnitude as a little-endian bit sequence without   *)
(* leading zeros, so that the 53-bit rounding of IEEE-754 doubles is kept. *)
(* The model's amounts are whole numbers: its input alphabet has digits,   *)
(* a sign and a letter, and no decimal point or exponent.                  *)
(* Time is counted in ticks since the epoch, TicksPerDay ticks a day, in   *)
(* place of the 86,400,000 milliseconds of a JavaScript day.               *)
(***************************************************************************)
EXTENDS Integers, Sequences, FiniteSets, TLC

VARIABLES
  tableExists,  \* whether CREATE TABLE expenses has run on this database
  table,        \* the rows of the expenses table, in ascending id order
  seq,          \* the AUTOINCREMENT counter of the expenses table
  expenses,     \* useState: the rows last loaded
  amount,       \* useState: the amount field's text
  category,     \* useState: the category field's text
  note,         \* useState: the note field's text
  filter,       \* useState: "All", "Week" or "Month"
  editingId,    \* useState: the id under edit, or Null
  now,          \* the device clock, in ticks since the epoch (UTC)
  tz,           \* the device's offset of local time from UTC, in ticks
  calls,        \* the asynchronous database calls in flight, oldest first
  crashed       \* whether a render of the screen has thrown

vars == <<tableExists, table, seq, expenses, amount, category, note, filter,
          editingId, now, tz, calls, crashed>>

----------------------------------------------------------------------------
(* Bounds of the model *)

\* the longest list of records drawn for the filter
MaxLen == 2
\* the longest list of records drawn for the totals
MaxTotalsLen == 3
\* the most rows the expenses table holds
MaxRows == 2
\* the device clock of the screen's runs advances at most this many ticks
MaxTick == 1
\* ticks per day
TicksPerDay == 2
\* the most database calls in flight when the user presses while calls are
\* pending
MaxCalls == 2

\* significand precision of a JavaScript Number (IEEE-754 binary64)
MantissaBits == 53

\* useState(null): no id is under edit.  AUTOINCREMENT ids start at 1, and
\* `if (editingId)` treats 0 as it treats null
Null == 0

----------------------------------------------------------------------------
(* Arithmetic on magnitudes: little-endian bit sequences, <<>> is zero.     *)
(* Sums, differences and quotients are computed ten bits at a time.        *)

BitAt(b, i) == IF i <= Len(b) THEN b[i] ELSE 0

MaxOf(x, y) == IF x >= y THEN x ELSE y

ChunkIdx == 1..10
ChunkBase == 2^10

\* the number of ten-bit chunks that hold n bits
ChunksOf(n) == (n + 9) \div 10

RECURSIVE ChunkSum(_, _, _)
ChunkSum(b, j, i) ==
  IF i \notin ChunkIdx THEN 0
  ELSE BitAt(b, 10 * (j - 1) + i) * 2^(i - 1) + ChunkSum(b, j, i + 1)

\* the value of the j-th chunk of b
ChunkVal(b, j) == ChunkSum(b, j, 1)

\* the ten bits of n < ChunkBase
ChunkBits(n) == [i \in ChunkIdx |-> (n \div 2^(i - 1)) % 2]

\* b without its leading zeros
Trim(b) ==
  LET n == CHOOSE m \in 0..Len(b) :
             /\ m = 0 \/ b[m] = 1
             /\ \A j \in (m + 1)..Len(b) : b[j] = 0
  IN  SubSeq(b, 1, n)

RECURSIVE AddFrom(_, _, _, _, _)
AddFrom(a, b, j, n, c) ==
  IF j > n THEN <<c>>
  ELSE LET s == ChunkVal(a, j) + ChunkVal(b, j) + c
       IN  ChunkBits(s % ChunkBase) \o AddFrom(a, b, j + 1, n, s \div ChunkBase)

AddMag(a, b) == Trim(AddFrom(a, b, 1, ChunksOf(MaxOf(Len(a), Len(b))), 0))

\* a - b for a >= b
RECURSIVE SubFrom(_, _, _, _, _)
SubFrom(a, b, j, n, c) ==
  IF j > n THEN <<>>
  ELSE LET d == ChunkVal(a, j) - ChunkVal(b, j) - c
       IN  ChunkBits(d % ChunkBase) \o
           SubFrom(a, b, j + 1, n, IF d < 0 THEN 1 ELSE 0)

SubMag(a, b) == Trim(SubFrom(a, b, 1, ChunksOf(Len(a)), 0))

\* -1, 0, 1 as a < b, a = b, a > b
CmpMag(a, b) ==
  IF Len(a) > Len(b) THEN 1
  ELSE IF Len(a) < Len(b) THEN -1
  ELSE LET diff == {i \in 1..Len(a) : a[i] # b[i]}
       IN  IF diff = {} THEN 0
           ELSE LET top == CHOOSE i \in diff : \A j \in diff : j <= i
                IN  IF a[top] > b[top] THEN 1 ELSE -1

Zeros(n) == [i \in 1..n |-> 0]

ShiftLeft(b, n) == IF b = <<>> THEN <<>> ELSE Zeros(n) \o b

\* the bits of a natural number below ChunkBase^3
NatToBits(n) ==
  Trim(ChunkBits(n % ChunkBase) \o ChunkBits((n \div ChunkBase) % ChunkBase)
       \o ChunkBits(n \div (ChunkBase * ChunkBase)))

\* the value of a magnitude below ChunkBase^3
BitsToNat(b) ==
  ChunkVal(b, 1) + ChunkBase * ChunkVal(b, 2)
    + ChunkBase * ChunkBase * ChunkVal(b, 3)

Mul10(b) == AddMag(ShiftLeft(b, 3), ShiftLeft(b, 1))

\* the quotient and remainder of b by 10: long division from the top chunk
RECURSIVE DivMod10From(_, _, _)
DivMod10From(b, j, r) ==
  IF j = 0 THEN [q |-> <<>>, r |-> r]
  ELSE LET cur  == r * ChunkBase + ChunkVal(b, j)
           rest == DivMod10From(b, j - 1, cur % 10)
       IN  [q |-> rest.q \o ChunkBits(cur \div 10), r |-> rest.r]

DivMod10(b) ==
  LET d == DivMod10From(b, ChunksOf(Len(b)), 0) IN [q |-> Trim(d.q), r |-> d.r]

----------------------------------------------------------------------------
(* JavaScript Numbers *)

Num(neg, mag) == [k |-> "num", neg |-> (neg /\ mag # <<>>), mag |-> mag]
NaN == [k |-> "nan", neg |-> FALSE, mag |-> <<>>]
NullValue == [k |-> "null", neg |-> FALSE, mag |-> <<>>]
Zero == Num(FALSE, <<>>)
IntNum(n) == IF n < 0 THEN Num(TRUE, NatToBits(-n)) ELSE Num(FALSE, NatToBits(n))

\* round-half-to-even of a magnitude to MantissaBits significant bits
RoundMag(b) ==
  IF Len(b) <= MantissaBits THEN b
  ELSE LET k      == Len(b) - MantissaBits
           kept   == SubSeq(b, k + 1, Len(b))
           guard  == b[k]
           sticky == \E i \in 1..(k - 1) : b[i] = 1
           up     == guard = 1 /\ (sticky \/ kept[1] = 1)
       IN  Zeros(k) \o (IF up THEN AddMag(kept, <<1>>) ELSE kept)

\* the exact sum of two whole numbers
IntAdd(x, y) ==
  IF x.neg = y.neg THEN Num(x.neg, AddMag(x.mag, y.mag))
  ELSE IF CmpMag(x.mag, y.mag) >= 0 THEN Num(x.neg, SubMag(x.mag, y.mag))
  ELSE Num(y.neg, SubMag(y.mag, x.mag))

\* ToNumber of a value read from a row: null converts to 0
ToNumber(v) == IF v.k = "null" THEN Zero ELSE v

\* x + y on Numbers (y may be null): NaN propagates, the sum is rounded
JsAdd(x, y) ==
  LET a == ToNumber(x)
      b == ToNumber(y)
  IN  IF a.k = "nan" \/ b.k = "nan" THEN NaN
      ELSE LET s == IntAdd(a, b) IN Num(s.neg, RoundMag(s.mag))

\* ToBoolean of a Number: 0 and NaN are falsy
Truthy(v) == v.k = "num" /\ v.mag # <<>>

----------------------------------------------------------------------------
(* Texts *)

Digits == <<"0", "1", "2", "3", "4", "5", "6", "7", "8", "9">>
IsDigit(c) == \E i \in 1..10 : Digits[i] = c
DigitVal(c) == (CHOOSE i \in 1..10 : Digits[i] = c) - 1

\* the length of the longest run of digits of t from position i
RECURSIVE DigitRun(_, _)
DigitRun(t, i) ==
  IF i <= Len(t) /\ IsDigit(t[i]) THEN 1 + DigitRun(t, i + 1) ELSE 0

RECURSIVE FromDecimal(_, _)
FromDecimal(ds, acc) ==
  IF ds = <<>> THEN acc
  ELSE FromDecimal(Tail(ds), AddMag(Mul10(acc), NatToBits(DigitVal(Head(ds)))))

\* parseFloat(text): an optional sign and the longest run of digits after it;
\* NaN when there is no digit; whatever follows the digits is ignored
parseFloat(t) ==
  LET signed == t # <<>> /\ t[1] \in {"-", "+"}
      start  == IF signed THEN 2 ELSE 1
      n      == DigitRun(t, start)
  IN  IF n = 0 THEN NaN
      ELSE Num(signed /\ t[1] = "-",
               RoundMag(FromDecimal(SubSeq(t, start, start + n - 1), <<>>)))

RECURSIVE DecimalFrom(_)
DecimalFrom(b) ==
  IF b = <<>> THEN <<>>
  ELSE LET d == DivMod10(b) IN Append(DecimalFrom(d.q), Digits[d.r + 1])

\* Number.prototype.toString of a whole number below 2^53, and of NaN
NumberToString(v) ==
  IF v.k = "nan" THEN <<"N", "a", "N">>
  ELSE IF v.mag = <<>> THEN <<"0">>
  ELSE (IF v.neg THEN <<"-">> ELSE <<>>) \o DecimalFrom(v.mag)

----------------------------------------------------------------------------
(* Dates: the time values of ECMAScript's Date, in ticks *)

Day(t) == t \div TicksPerDay
TimeWithinDay(t) == t % TicksPerDay

InLeapYear(y) == (y % 4 = 0 /\ y % 100 # 0) \/ y % 400 = 0

DayFromYear(y) ==
  365 * (y - 1970) + ((y - 1969) \div 4) - ((y - 1901) \div 100)
    + ((y - 1601) \div 400)

\* the year of day number d: the last year that starts on or before it
YearFromDay(d) ==
  CHOOSE y \in (1969 + (d \div 366))..(1971 + (d \div 365)) :
    DayFromYear(y) <= d /\ d < DayFromYear(y + 1)

YearFromTime(t) == YearFromDay(Day(t))

\* the day within its year on which month m (0..11, 12 for the year's end) starts
MonthStart(m, leap) ==
  <<0, 31, 59, 90, 120, 151, 181, 212, 243, 273, 304, 334, 365>>[m + 1]
    + (IF leap /\ m >= 2 THEN 1 ELSE 0)

DayWithinYear(t) == Day(t) - DayFromYear(YearFromTime(t))

MonthFromTime(t) ==
  LET leap == InLeapYear(YearFromTime(t))
      d    == DayWithinYear(t)
  IN  CHOOSE m \in 0..11 : MonthStart(m, leap) <= d /\ d < MonthStart(m + 1, leap)

DateFromTime(t) ==
  DayWithinYear(t) - MonthStart(MonthFromTime(t), InLeapYear(YearFromTime(t))) + 1

\* 0 is Sunday; day 0 of the epoch was a Thursday
WeekDay(t) == (Day(t) + 4) % 7

\* the day number of the given date; month and date may lie outside their
\* ranges and carry into the neighbouring months and years
MakeDay(year, month, date) ==
  LET ym == year + (month \div 12)
      mn == month % 12
  IN  DayFromYear(ym) + MonthStart(mn, InLeapYear(ym)) + date - 1

MakeDate(day, time) == day * TicksPerDay + time

LocalTime(t, z) == t + z
UTC(t, z) == t - z

getFullYear(t, z) == YearFromTime(LocalTime(t, z))
getMonth(t, z) == MonthFromTime(LocalTime(t, z))
getDate(t, z) == DateFromTime(LocalTime(t, z))
getDay(t, z) == WeekDay(LocalTime(t, z))

\* date.setDate(dt)
setDate(t, z, dt) ==
  LET lt == LocalTime(t, z)
  IN  UTC(MakeDate(MakeDay(YearFromTime(lt), MonthFromTime(lt), dt),
                   TimeWithinDay(lt)), z)

\* date.setHours(0, 0, 0, 0)
setHoursZero(t, z) == UTC(MakeDate(Day(LocalTime(t, z)), 0), z)

\* new Date(year, month, date)
NewDate(year, month, date, z) == UTC(MakeDate(MakeDay(year, month, date), 0), z)

\* date.toISOString(): the UTC fields of the instant
toISOString(t) ==
  [year |-> YearFromTime(t), month |-> MonthFromTime(t) + 1,
   day |-> DateFromTime(t), time |-> TimeWithinDay(t)]

\* new Date(text) of a text that toISOString wrote
DateParse(iso) == MakeDate(MakeDay(iso.year, iso.month - 1, iso.day), iso.time)

----------------------------------------------------------------------------
(* The computations of a render *)

Reverse(s) == [i \in 1..Len(s) |-> s[Len(s) + 1 - i]]

RECURSIVE FilterSeq(_, _, _)
FilterSeq(s, keep(_), i) ==
  IF i > Len(s) THEN <<>>
  ELSE (IF keep(s[i]) THEN <<s[i]>> ELSE <<>>) \o FilterSeq(s, keep, i + 1)

\* startOfWeek without its setHours(0, 0, 0, 0)
startOfWeek_NoSetHours(t, z) == setDate(t, z, getDate(t, z) - getDay(t, z))

startOfWeek(t, z) == setHoursZero(setDate(t, z, getDate(t, z) - getDay(t, z)), z)

\* startOfMonth from the UTC fields of the instant
startOfMonth_Utc(t, z) == NewDate(getFullYear(t, 0), getMonth(t, 0), 1, 0)

startOfMonth(t, z) == NewDate(getFullYear(t, z), getMonth(t, z), 1, z)

\* getFilteredExpenses without its early return for 'All': whatever is not
\* 'Week' is filtered as 'Month'
getFilteredExpenses_NoEarlyReturn(exps, f, t, z) ==
  LET weekStart  == setHoursZero(setDate(t, z, getDate(t, z) - getDay(t, z)), z)
      monthStart == NewDate(getFullYear(t, z), getMonth(t, z), 1, z)
      keep(ex) ==
        LET exDate == DateParse(ex.date)
        IN  IF f = "Week" THEN exDate >= weekStart ELSE exDate >= monthStart
  IN  FilterSeq(exps, keep, 1)

\* getFilteredExpenses with the kept records collected in reverse
getFilteredExpenses_Reversed(exps, f, t, z) ==
  IF f = "All" THEN exps
  ELSE LET weekStart  == setHoursZero(setDate(t, z, getDate(t, z) - getDay(t, z)), z)
           monthStart == NewDate(getFullYear(t, z), getMonth(t, z), 1, z)
           keep(ex) ==
             LET exDate == DateParse(ex.date)
             IN  IF f = "Week" THEN exDate >= weekStart
                 ELSE IF f = "Month" THEN exDate >= monthStart
                 ELSE TRUE
       IN  Reverse(FilterSeq(exps, keep, 1))

\* getFilteredExpenses() with expenses = exps, filter = f, at instant t in zone z
getFilteredExpenses(exps, f, t, z) ==
  IF f = "All" THEN exps
  ELSE LET weekStart  == startOfWeek(t, z)
           monthStart == startOfMonth(t, z)
           keep(ex) ==
             LET exDate == DateParse(ex.date)
             IN  IF f = "Week" THEN exDate >= weekStart
                 ELSE IF f = "Month" THEN exDate >= monthStart
                 ELSE TRUE
       IN  FilterSeq(exps, keep, 1)

\* Own property keys of an object: array indices in ascending order come
\* first, then the other keys in the order of their creation.  An object is
\* the sequence of its [key, val] properties in that order.

IsArrayIndex(key) ==
  /\ Len(key) >= 1
  /\ \A i \in 1..Len(key) : IsDigit(key[i])
  /\ Len(key) = 1 \/ key[1] # "0"
  /\ \/ Len(key) < 10
     \/ /\ Len(key) = 10
        /\ LET top  == <<"4", "2", "9", "4", "9", "6", "7", "2", "9", "4">>
               diff == {i \in 1..10 : key[i] # top[i]}
           IN  \/ diff = {}
               \/ LET first == CHOOSE i \in diff : \A j \in diff : i <= j
                  IN  DigitVal(key[first]) < DigitVal(top[first])

\* a < b for array indices in canonical form
IndexLess(a, b) ==
  \/ Len(a) < Len(b)
  \/ /\ Len(a) = Len(b)
     /\ \E i \in 1..Len(a) :
          /\ DigitVal(a[i]) < DigitVal(b[i])
          /\ \A j \in 1..(i - 1) : a[j] = b[j]

HasKey(obj, key) == \E i \in 1..Len(obj) : obj[i].key = key

\* obj[key] of a key the object has
ObjGet(obj, key) == obj[CHOOSE i \in 1..Len(obj) : obj[i].key = key].val

\* obj[key] = v
ObjSet(obj, key, v) ==
  IF HasKey(obj, key)
  THEN [i \in 1..Len(obj) |->
          IF obj[i].key = key THEN [key |-> key, val |-> v] ELSE obj[i]]
  ELSE IF IsArrayIndex(key)
  THEN LET before == Cardinality({i \in 1..Len(obj) :
                        IsArrayIndex(obj[i].key) /\ IndexLess(obj[i].key, key)})
       IN  SubSeq(obj, 1, before) \o <<[key |-> key, val |-> v]>>
             \o SubSeq(obj, before + 1, Len(obj))
  ELSE Append(obj, [key |-> key, val |-> v])

\* Object.keys(obj)
ObjectKeys(obj) == [i \in 1..Len(obj) |-> obj[i].key]

RECURSIVE ReduceTotal(_, _, _)
ReduceTotal(rows, i, sum) ==
  IF i > Len(rows) THEN sum
  ELSE ReduceTotal(rows, i + 1, JsAdd(sum, rows[i].amount))

RECURSIVE ReduceByCategory(_, _, _)
ReduceByCategory(rows, i, acc) ==
  IF i > Len(rows) THEN acc
  ELSE LET item == rows[i]
           old  == IF HasKey(acc, item.category) /\ Truthy(ObjGet(acc, item.category))
                   THEN ObjGet(acc, item.category)
                   ELSE Zero
       IN  ReduceByCategory(rows, i + 1,
                            ObjSet(acc, item.category, JsAdd(old, item.amount)))

\* calculateTotals() with visibleExpenses = rows
calculateTotals(rows) ==
  [total |-> ReduceTotal(rows, 1, Zero),
   byCategory |-> ReduceByCategory(rows, 1, <<>>)]

\* item.amount.toFixed(2) of the list's cards throws on a null amount
RenderThrows(exps, f, t, z) ==
  /\ \E i \in 1..Len(exps) : exps[i].amount.k = "null"
  /\ LET shown == getFilteredExpenses(exps, f, t, z)
     IN  \E i \in 1..Len(shown) : shown[i].amount.k = "null"

visibleExpenses == getFilteredExpenses(expenses, filter, now, tz)

----------------------------------------------------------------------------
(* The inputs of the model *)

\* the instant the screen's runs start at: the last tick of Saturday,
\* 27 December 2025 (UTC); a new week starts with the next tick
ClockBase == MakeDate(MakeDay(2025, 11, 28), 0) - 1

\* what the user types into the amount, category and note fields
AmountTexts == {<<>>, <<"5">>, <<"7">>, <<"7", "x">>}
CategoryTexts == {<<>>, <<"F">>}
NoteTexts == {<<>>, <<"n">>}

FilterModes == {"All", "Week", "Month"}

\* the instants and zone offsets drawn for the filter: 27 December 2025 to
\* 1 January 2026
Window == MakeDate(MakeDay(2025, 11, 27), 0)..(MakeDate(MakeDay(2026, 0, 2), 0) - 1)
ZoneOffsets == {-1, 0, 1}

\* the amounts and labels drawn for the totals
TotalsAmounts ==
  {IntNum(1), IntNum(-3), Num(FALSE, Zeros(MantissaBits) \o <<1>>),
   Num(TRUE, Zeros(MantissaBits) \o <<1>>), NaN, NullValue}
TotalsLabels == {<<"F">>, <<"2">>, <<"1", "0">>}

----------------------------------------------------------------------------
(* The database calls in flight *)

\* a call: what was asked (kind and parameters), where it stands (pc: "db"
\* while the database has not run it, "js" once its promise is resolved,
\* "rejected" once it is rejected) and, for getAllAsync, the rows it returned
Call(kind) ==
  [kind |-> kind, pc |-> "db", id |-> Null, text |-> <<>>, amount |-> Zero,
   category |-> <<>>, note |-> <<>>, date |-> toISOString(ClockBase),
   rows |-> <<>>]

Row(id, amt, cat, nt, date) ==
  [id |-> id, amount |-> amt, category |-> cat, note |-> nt, date |-> date]

\* SELECT * FROM expenses ORDER BY id DESC
SelectAllDesc(rows) == Reverse(rows)

\* what a REAL column holds once a Number was bound to it: NaN is kept or
\* becomes NULL, as the binding has it
StoredReal(v) == IF v.k = "nan" THEN {NaN, NullValue} ELSE {v}

\* the UPDATE without its WHERE clause
UpdateRows_NoWhere(rows, id, amt, cat, nt) ==
  [i \in 1..Len(rows) |->
     [rows[i] EXCEPT !.amount = amt, !.category = cat, !.note = nt]]

\* UPDATE expenses SET amount = ?, category = ?, note = ? WHERE id = ?
UpdateRows(rows, id, amt, cat, nt) ==
  [i \in 1..Len(rows) |->
     IF rows[i].id = id
     THEN [rows[i] EXCEPT !.amount = amt, !.category = cat, !.note = nt]
     ELSE rows[i]]

\* INSERT INTO expenses (amount, category, note, date) VALUES (?, ?, ?, ?)
InsertRow(rows, id, amt, cat, nt, date) == Append(rows, Row(id, amt, cat, nt, date))

\* the rows an insert in flight will still add
PendingInserts == Cardinality({i \in 1..Len(calls) :
                                 calls[i].kind = "insert" /\ calls[i].pc = "db"})

\* the oldest call the database has not run yet
NextForDb == CHOOSE i \in 1..Len(calls) :
               calls[i].pc = "db" /\ \A j \in 1..(i - 1) : calls[j].pc # "db"

\* loadExpenses(), up to its await
loadExpensesCall == Call("getAll")

----------------------------------------------------------------------------
(* The handlers.  The user acts when no database call is pending: a press  *)
(* or a keystroke while a call is in flight is not a step of this model.   *)

Idle == calls = <<>> /\ ~crashed

\* onChangeText={setAmount}
SetAmount(t) ==
  /\ Idle
  /\ amount' = t
  /\ UNCHANGED <<tableExists, table, seq, expenses, category, note, filter,
                 editingId, now, tz, calls, crashed>>

\* onChangeText={setCategory}
SetCategory(t) ==
  /\ Idle
  /\ category' = t
  /\ UNCHANGED <<tableExists, table, seq, expenses, amount, note, filter,
                 editingId, now, tz, calls, crashed>>

\* onChangeText={setNote}
SetNote(t) ==
  /\ Idle
  /\ note' = t
  /\ UNCHANGED <<tableExists, table, seq, expenses, amount, category, filter,
                 editingId, now, tz, calls, crashed>>

\* onPress={() => setFilter(f)}, and the render that follows
SetFilter(f) ==
  /\ Idle
  /\ filter' = f
  /\ crashed' = RenderThrows(expenses, f, now, tz)
  /\ UNCHANGED <<tableExists, table, seq, expenses, amount, category, note,
                 editingId, now, tz, calls>>

\* saveExpense without its edit branch: an INSERT in either mode
saveExpenseCall_AlwaysInsert ==
  [Call("insert") EXCEPT !.text = amount,
     !.amount = parseFloat(amount), !.category = category, !.note = note,
     !.date = toISOString(now)]

\* the call saveExpense awaits: an UPDATE in edit mode, an INSERT otherwise
saveExpenseCall ==
  IF editingId # Null
  THEN [Call("update") EXCEPT !.id = editingId, !.text = amount,
          !.amount = parseFloat(amount), !.category = category, !.note = note]
  ELSE [Call("insert") EXCEPT !.text = amount,
          !.amount = parseFloat(amount), !.category = category, !.note = note,
          !.date = toISOString(now)]

\* onPress={saveExpense}, up to its await
SaveExpense ==
  /\ Idle
  /\ IF amount = <<>> \/ category = <<>>
     THEN UNCHANGED calls
     ELSE /\ editingId = Null => Len(table) + PendingInserts < MaxRows
          /\ calls' = Append(calls, saveExpenseCall)
  /\ UNCHANGED <<tableExists, table, seq, expenses, amount, category, note,
                 filter, editingId, now, tz, crashed>>

\* onPress={() => handleEdit(item)}
HandleEdit(item) ==
  /\ Idle
  /\ editingId' = item.id
  /\ amount' = NumberToString(item.amount)
  /\ category' = item.category
  /\ note' = item.note
  /\ UNCHANGED <<tableExists, table, seq, expenses, filter, now, tz, calls,
                 crashed>>

\* onPress={() => deleteTask(item.id)}, up to its await
DeleteTask(id) ==
  /\ Idle
  /\ calls' = Append(calls, [Call("delete") EXCEPT !.id = id])
  /\ UNCHANGED <<tableExists, table, seq, expenses, amount, category, note,
                 filter, editingId, now, tz, crashed>>

\* the database runs the oldest call it has not run yet
DbRun ==
  /\ \E i \in 1..Len(calls) : calls[i].pc = "db"
  /\ LET i == NextForDb
         c == calls[i]
     IN  \/ /\ c.kind = "exec"
            /\ tableExists' = TRUE
            /\ calls' = [calls EXCEPT ![i].pc = "js"]
            /\ UNCHANGED <<table, seq>>
         \/ /\ c.kind = "insert"
            /\ IF tableExists
               THEN /\ \E stored \in StoredReal(c.amount) :
                         table' = InsertRow(table, seq + 1, stored, c.category,
                                            c.note, c.date)
                    /\ seq' = seq + 1
                    /\ calls' = [calls EXCEPT ![i].pc = "js"]
               ELSE /\ calls' = [calls EXCEPT ![i].pc = "rejected"]
                    /\ UNCHANGED <<table, seq>>
            /\ UNCHANGED tableExists
         \/ /\ c.kind = "update"
            /\ IF tableExists
               THEN /\ \E stored \in StoredReal(c.amount) :
                         table' = UpdateRows(table, c.id, stored, c.category, c.note)
                    /\ calls' = [calls EXCEPT ![i].pc = "js"]
               ELSE /\ calls' = [calls EXCEPT ![i].pc = "rejected"]
                    /\ UNCHANGED table
            /\ UNCHANGED <<tableExists, seq>>
         \/ /\ c.kind = "delete"
            \* DELETE FROM tasks: the database has no table of that name
            /\ calls' = [calls EXCEPT ![i].pc = "rejected"]
            /\ UNCHANGED <<tableExists, table, seq>>
         \/ /\ c.kind = "getAll"
            /\ calls' = IF tableExists
                        THEN [calls EXCEPT ![i].pc = "js",
                                           ![i].rows = SelectAllDesc(table)]
                        ELSE [calls EXCEPT ![i].pc = "rejected"]
            /\ UNCHANGED <<tableExists, table, seq>>
  /\ UNCHANGED <<expenses, amount, category, note, filter, editingId, now, tz,
                 crashed>>

\* Resume with saveExpense ending at its reset of the form, without the call
\* of loadExpenses
Resume_NoReload ==
  /\ calls # <<>>
  /\ Head(calls).pc # "db"
  /\ LET c == Head(calls)
     IN  IF c.pc = "rejected" \/ c.kind = "delete"
         THEN /\ calls' = Tail(calls)
              /\ UNCHANGED <<expenses, amount, category, note, editingId, crashed>>
         ELSE IF c.kind = "exec"
         THEN /\ calls' = Append(Tail(calls), loadExpensesCall)
              /\ UNCHANGED <<expenses, amount, category, note, editingId, crashed>>
         ELSE IF c.kind = "getAll"
         THEN /\ calls' = Tail(calls)
              /\ expenses' = IF crashed THEN expenses ELSE c.rows
              /\ crashed' = (crashed \/ RenderThrows(c.rows, filter, now, tz))
              /\ UNCHANGED <<amount, category, note, editingId>>
         ELSE /\ editingId' = IF c.kind = "update" THEN Null ELSE editingId
              /\ amount' = <<>>
              /\ category' = <<>>
              /\ note' = <<>>
              /\ calls' = Tail(calls)
              /\ UNCHANGED <<expenses, crashed>>
  /\ UNCHANGED <<tableExists, table, seq, filter, now, tz>>

\* the code after the await of the oldest call runs, once its promise is settled
Resume ==
  /\ calls # <<>>
  /\ Head(calls).pc # "db"
  /\ LET c == Head(calls)
     IN  IF c.pc = "rejected" \/ c.kind = "delete"
         \* the handler's own promise is rejected: by the database's error,
         \* or, after a DELETE, by the call of the undefined loadTasks
         THEN /\ calls' = Tail(calls)
              /\ UNCHANGED <<expenses, amount, category, note, editingId, crashed>>
         ELSE IF c.kind = "exec"
         THEN /\ calls' = Append(Tail(calls), loadExpensesCall)
              /\ UNCHANGED <<expenses, amount, category, note, editingId, crashed>>
         ELSE IF c.kind = "getAll"
         THEN /\ calls' = Tail(calls)
              /\ expenses' = IF crashed THEN expenses ELSE c.rows
              /\ crashed' = (crashed \/ RenderThrows(c.rows, filter, now, tz))
              /\ UNCHANGED <<amount, category, note, editingId>>
         ELSE /\ editingId' = IF c.kind = "update" THEN Null ELSE editingId
              /\ amount' = <<>>
              /\ category' = <<>>
              /\ note' = <<>>
              /\ calls' = Append(Tail(calls), loadExpensesCall)
              /\ UNCHANGED <<expenses, crashed>>
  /\ UNCHANGED <<tableExists, table, seq, filter, now, tz>>

\* the device clock advances
Tick ==
  /\ now < ClockBase + MaxTick
  /\ now' = now + 1
  /\ UNCHANGED <<tableExists, table, seq, expenses, amount, category, note,
                 filter, editingId, tz, calls, crashed>>

----------------------------------------------------------------------------
(* The screen: from its mount on a new database.  The filter stays at 'All' *)
(* here; its modes are the subject of SpecFilter below.                     *)

Init ==
  /\ tableExists = FALSE
  /\ table = <<>>
  /\ seq = 0
  /\ expenses = <<>>
  /\ amount = <<>>
  /\ category = <<>>
  /\ note = <<>>
  /\ filter = "All"
  /\ editingId = Null
  /\ now = ClockBase
  /\ tz = 0
  /\ calls = <<Call("exec")>>
  /\ crashed = FALSE

Next ==
  \/ \E t \in AmountTexts : SetAmount(t)
  \/ \E t \in CategoryTexts : SetCategory(t)
  \/ \E t \in NoteTexts : SetNote(t)
  \/ SaveExpense
  \/ \E i \in 1..Len(visibleExpenses) : HandleEdit(visibleExpenses[i])
  \/ \E i \in 1..Len(visibleExpenses) : DeleteTask(visibleExpenses[i].id)
  \/ DbRun
  \/ Resume
  \/ Tick

Spec == Init /\ [][Next]_vars

----------------------------------------------------------------------------
(* The filter on its own: a loaded list of records with timestamps drawn   *)
(* from the window, at any instant of the window, in any of the zones      *)

InitFilter ==
  /\ tableExists = TRUE
  /\ \E n \in 0..MaxLen : \E ts \in [1..n -> Window] :
       /\ expenses = [i \in 1..n |->
                        Row(n + 1 - i, IntNum(5), <<"F">>, <<>>, toISOString(ts[i]))]
       /\ seq = n
  /\ table = Reverse(expenses)
  /\ amount = <<>>
  /\ category = <<>>
  /\ note = <<>>
  /\ filter = "All"
  /\ editingId = Null
  /\ now \in Window
  /\ tz \in ZoneOffsets
  /\ calls = <<>>
  /\ crashed = FALSE

NextFilter == \E f \in FilterModes : SetFilter(f)

SpecFilter == InitFilter /\ [][NextFilter]_vars

----------------------------------------------------------------------------
(* The totals on their own: a loaded list of records with amounts and      *)
(* labels drawn from TotalsAmounts and TotalsLabels                        *)

InitTotals ==
  /\ tableExists = TRUE
  /\ \E n \in 0..MaxTotalsLen :
       \E as \in [1..n -> TotalsAmounts] : \E ls \in [1..n -> TotalsLabels] :
         /\ expenses = [i \in 1..n |->
                          Row(n + 1 - i, as[i], ls[i], <<>>, toISOString(ClockBase))]
         /\ seq = n
  /\ table = Reverse(expenses)
  /\ amount = <<>>
  /\ category = <<>>
  /\ note = <<>>
  /\ filter = "All"
  /\ editingId = Null
  /\ now = ClockBase
  /\ tz = 0
  /\ calls = <<>>
  /\ crashed = RenderThrows(expenses, "All", ClockBase, 0)

NextTotals == \E f \in FilterModes : SetFilter(f)

SpecTotals == InitTotals /\ [][NextTotals]_vars

----------------------------------------------------------------------------
(* The screen with a user who does not wait: the fields are typed into and  *)
(* the buttons pressed while database calls are in flight, at most MaxCalls *)
(* of them.  The database runs the calls one at a time in the order of      *)
(* their issue, and their promises settle in that order.                    *)

\* onChangeText={setAmount}, whatever is pending
TypeAmount(t) ==
  /\ ~crashed
  /\ amount' = t
  /\ UNCHANGED <<tableExists, table, seq, expenses, category, note, filter,
                 editingId, now, tz, calls, crashed>>

\* onChangeText={setCategory}, whatever is pending
TypeCategory(t) ==
  /\ ~crashed
  /\ category' = t
  /\ UNCHANGED <<tableExists, table, seq, expenses, amount, note, filter,
                 editingId, now, tz, calls, crashed>>

\* onPress={saveExpense}, whatever is pending, up to its await
PressSave ==
  /\ ~crashed
  /\ IF amount = <<>> \/ category = <<>>
     THEN UNCHANGED calls
     ELSE /\ Len(calls) < MaxCalls
          /\ editingId = Null => Len(table) + PendingInserts < MaxRows
          /\ calls' = Append(calls, saveExpenseCall)
  /\ UNCHANGED <<tableExists, table, seq, expenses, amount, category, note,
                 filter, editingId, now, tz, crashed>>

\* onPress={() => handleEdit(item)}, whatever is pending
PressEdit(item) ==
  /\ ~crashed
  /\ editingId' = item.id
  /\ amount' = NumberToString(item.amount)
  /\ category' = item.category
  /\ note' = item.note
  /\ UNCHANGED <<tableExists, table, seq, expenses, filter, now, tz, calls,
                 crashed>>

\* what this user types: the fields empty themselves after every save
PressAmounts == {<<"5">>, <<"7">>}
PressCategories == {<<"F">>}

NextPresses ==
  \/ \E t \in PressAmounts : TypeAmount(t)
  \/ \E t \in PressCategories : TypeCategory(t)
  \/ PressSave
  \/ \E i \in 1..Len(visibleExpenses) : PressEdit(visibleExpenses[i])
  \/ DbRun
  \/ Resume

SpecPresses == Init /\ [][NextPresses]_vars

----------------------------------------------------------------------------
(* The claims about the filter, under SpecFilter *)

Timestamp(ex) == DateParse(ex.date)

IsLocalMidnight(s, z) == TimeWithinDay(LocalTime(s, z)) = 0

\* the last instant up to t at which a Sunday starts in zone z
WeekBoundary(t, z) ==
  CHOOSE s \in (t - 7 * TicksPerDay + 1)..t :
    IsLocalMidnight(s, z) /\ WeekDay(LocalTime(s, z)) = 0

\* whether day number d is the first day of a month and, if so, of which
IsFirstOfMonth(d, m) ==
  LET y == YearFromDay(d)
  IN  d - DayFromYear(y) = MonthStart(m, InLeapYear(y))

\* the instant at which now's month starts in zone z: the local midnight
\* of the day, among the last 31, that is the first day of that month
MonthBoundary(t, z) ==
  LET today == Day(LocalTime(t, z))
      month == MonthFromTime(LocalTime(t, z))
      first == CHOOSE d \in (today - 30)..today : IsFirstOfMonth(d, month)
  IN  UTC(MakeDate(first, 0), z)

RECURSIVE IsSubsequence(_, _)
IsSubsequence(s, t) ==
  IF s = <<>> THEN TRUE
  ELSE IF t = <<>> THEN FALSE
  ELSE IF Head(s) = Head(t) THEN IsSubsequence(Tail(s), Tail(t))
  ELSE IsSubsequence(s, Tail(t))

\* C1: with filter 'All' the filtered list is the list of records itself,
\* the same records in the same order, whatever the instant and the zone
C1_AllIsIdentity == filter = "All" => visibleExpenses = expenses

\* two records are listed under 'All', one of which 'Week' would drop
C1_Witness ==
  /\ filter = "All"
  /\ Len(expenses) = 2
  /\ visibleExpenses = expenses
  /\ Len(getFilteredExpenses(expenses, "Week", now, tz)) = 1

\* C2: with filter 'Week' or 'Month' the filtered list is a subsequence of
\* the list of records: its records are records of the list, none more often
\* than there, and in the order they have there
C2_FilteredIsSubsequence ==
  filter \in {"Week", "Month"} => IsSubsequence(visibleExpenses, expenses)

\* two records with different timestamps are both kept
C2_Witness ==
  /\ filter \in {"Week", "Month"}
  /\ Len(visibleExpenses) = 2
  /\ Timestamp(visibleExpenses[1]) < Timestamp(visibleExpenses[2])

\* C3: with filter 'Week' the filtered list holds exactly the records whose
\* timestamp is on or after the start of the most recent Sunday in local
\* time, in their order; later timestamps, those after now too, are kept
C3_WeekFromSundayMidnight ==
  filter = "Week" =>
    LET boundary == WeekBoundary(now, tz)
    IN  visibleExpenses = SelectSeq(expenses, LAMBDA ex : Timestamp(ex) >= boundary)

\* the Sunday lies in the month and year before now's; the record at its
\* first instant is kept and the record one tick earlier is dropped
C3_Witness ==
  /\ filter = "Week"
  /\ Len(expenses) = 2
  /\ getFullYear(WeekBoundary(now, tz), tz) < getFullYear(now, tz)
  /\ Timestamp(expenses[1]) = WeekBoundary(now, tz)
  /\ Timestamp(expenses[2]) = WeekBoundary(now, tz) - 1
  /\ visibleExpenses = <<expenses[1]>>

\* C4: with filter 'Month' the filtered list holds exactly the records whose
\* timestamp is on or after the start, in local time, of day 1 of now's
\* month, in their order; later timestamps, those after now too, are kept
C4_MonthFromFirstMidnight ==
  filter = "Month" =>
    LET boundary == MonthBoundary(now, tz)
    IN  visibleExpenses = SelectSeq(expenses, LAMBDA ex : Timestamp(ex) >= boundary)

\* in a zone off UTC, the record at the first instant of the month is kept
\* and the record one tick earlier is dropped
C4_Witness ==
  /\ filter = "Month"
  /\ tz # 0
  /\ Len(expenses) = 2
  /\ Timestamp(expenses[1]) = MonthBoundary(now, tz)
  /\ Timestamp(expenses[2]) = MonthBoundary(now, tz) - 1
  /\ visibleExpenses = <<expenses[1]>>

----------------------------------------------------------------------------
(* The claims about the totals, under SpecTotals *)

AllNumeric(rows) == \A i \in 1..Len(rows) : rows[i].amount.k = "num"

\* the arithmetic sum of the amounts of rows
RECURSIVE ExactSum(_)
ExactSum(rows) ==
  IF rows = <<>> THEN Zero ELSE IntAdd(rows[1].amount, ExactSum(Tail(rows)))

\* the labels of rows from index i on that are not in seen, appended to seen
\* in the order in which they first appear
RECURSIVE FirstAppearances(_, _, _)
FirstAppearances(rows, i, seen) ==
  IF i > Len(rows) THEN seen
  ELSE FirstAppearances(rows, i + 1,
         IF \E j \in 1..Len(seen) : seen[j] = rows[i].category
         THEN seen ELSE Append(seen, rows[i].category))

WithLabel(rows, label) == SelectSeq(rows, LAMBDA r : r.category = label)

\* C5: the total of a list of records with numeric amounts is the
\* arithmetic sum of the amounts, and is 0 for the empty list
C5_TotalIsArithmeticSum ==
  (~crashed /\ AllNumeric(visibleExpenses)) =>
    calculateTotals(visibleExpenses).total = ExactSum(visibleExpenses)

\* C6: byCategory has one entry per distinct label of the list, enumerated
\* in the order in which the labels first appear, each with the sum of the
\* amounts of its label; stated for amounts small enough to add up exactly
C6_ByCategoryInFirstAppearanceOrder ==
  (~crashed /\ \A i \in 1..Len(visibleExpenses) :
                  visibleExpenses[i].amount \in {IntNum(1), IntNum(-3)}) =>
    LET byCategory == calculateTotals(visibleExpenses).byCategory
    IN  /\ ObjectKeys(byCategory) = FirstAppearances(visibleExpenses, 1, <<>>)
        /\ \A i \in 1..Len(byCategory) :
             byCategory[i].val = ExactSum(WithLabel(visibleExpenses, byCategory[i].key))

----------------------------------------------------------------------------
(* The claims about saving, editing and deleting, under Spec *)

Last(s) == s[Len(s)]

Negate(x) == Num(~x.neg, x.mag)

\* the database runs a call of the given kind in this step
Runs(kind) ==
  /\ \E i \in 1..Len(calls) : calls[i].pc = "db"
  /\ calls[NextForDb].kind = kind
  /\ calls' = [calls EXCEPT ![NextForDb].pc = "js"]

\* the code after the await of a call of the given kind runs in this step
Continues(kind) ==
  /\ calls # <<>>
  /\ Head(calls).kind = kind
  /\ Head(calls).pc = "js"
  /\ calls' # calls

\* the total of the list a reload would show
ReloadedTotal(rows) == calculateTotals(SelectAllDesc(rows)).total

\* C7: the UPDATE of an edit of record X leaves the number of records, every
\* id and every date as they are, changes no record but X, gives X the
\* amount, category and note of the form, and moves the total of the reloaded
\* list by the new amount less the old one; the reload that follows shows
\* the table as the UPDATE left it
C7_EditChangesOnlyTheRecord ==
  [][ /\ Runs("update") =>
         (LET c == calls[NextForDb]
              X == c.id
          IN  /\ Len(table') = Len(table)
              /\ \E i \in 1..Len(table) : table[i].id = X
              /\ \A i \in 1..Len(table) :
                   /\ table'[i].id = table[i].id
                   /\ table'[i].date = table[i].date
                   /\ (table[i].id # X => table'[i] = table[i])
                   /\ table[i].id = X =>
                        /\ table'[i].amount = parseFloat(c.text)
                        /\ table'[i].category = c.category
                        /\ table'[i].note = c.note
                        /\ ReloadedTotal(table') =
                             IntAdd(IntAdd(ReloadedTotal(table), Negate(table[i].amount)),
                                    table'[i].amount))
      /\ Continues("getAll") => expenses' = SelectAllDesc(table)
    ]_vars

\* the UPDATE of an edit has run on a table of two records: the record under
\* edit has a new amount and its date, the other record is as it was loaded
C7_Witness ==
  /\ calls # <<>>
  /\ Head(calls).kind = "update"
  /\ Head(calls).pc = "js"
  /\ Len(table) = 2
  /\ Len(expenses) = 2
  /\ \E i, j \in 1..2 :
       /\ table[i].id = Head(calls).id
       /\ expenses[j].id = table[i].id
       /\ expenses[j].amount # table[i].amount
       /\ expenses[j].date = table[i].date
       /\ expenses[3 - j] = table[3 - i]
       /\ DateParse(table[i].date) < now

WellFormedAmount(t) == t # <<>> /\ \A i \in 1..Len(t) : IsDigit(t[i])

\* C8: once the database has run the call of a delete of id X, the table
\* holds no record with id X
C8_DeleteRemovesTheRecord ==
  \A i \in 1..Len(calls) :
    (calls[i].kind = "delete" /\ calls[i].pc # "db") =>
      \A j \in 1..Len(table) : table[j].id # calls[i].id

\* C9: no INSERT or UPDATE that the database has run carries an amount that
\* was typed as anything but a number
C9_MalformedAmountIsNotStored ==
  \A i \in 1..Len(calls) :
    (calls[i].kind \in {"insert", "update"} /\ calls[i].pc = "js") =>
      WellFormedAmount(calls[i].text)

\* C10: a call of saveExpense is issued only with a non-empty amount and
\* category, as an UPDATE of the record under edit when editingId is set and
\* as an INSERT dated now when it is null; a press with an empty amount or
\* category changes nothing; the UPDATE adds no record; the INSERT adds one
\* record and changes none; after either the form's fields are cleared,
\* editingId is null after the UPDATE, and the list is reloaded
C10_SaveDispatchesOnFormMode ==
  [][ /\ (Len(calls') = Len(calls) + 1 /\ Last(calls').kind \in {"insert", "update"}) =>
         (LET c == Last(calls')
          IN  /\ amount # <<>> /\ category # <<>>
              /\ c.amount = parseFloat(amount)
              /\ c.category = category
              /\ c.note = note
              /\ (editingId # Null => (c.kind = "update" /\ c.id = editingId))
              /\ (editingId = Null => (c.kind = "insert" /\ DateParse(c.date) = now))
              /\ UNCHANGED <<table, expenses, amount, category, note, editingId>>)
      /\ (SaveExpense /\ (amount = <<>> \/ category = <<>>)) => UNCHANGED vars
      /\ Runs("update") =>
           (/\ Len(table') = Len(table)
            /\ \A i \in 1..Len(table) :
                 table[i].id # calls[NextForDb].id => table'[i] = table[i])
      /\ Runs("insert") =>
           (/\ Len(table') = Len(table) + 1
            /\ SubSeq(table', 1, Len(table)) = table
            /\ Last(table').date = calls[NextForDb].date
            /\ Last(table').amount = calls[NextForDb].amount
            /\ \A i \in 1..Len(table) : table[i].id # Last(table').id)
      /\ (Continues("update") \/ Continues("insert")) =>
           /\ amount' = <<>> /\ category' = <<>> /\ note' = <<>>
           /\ editingId' = IF Head(calls).kind = "update" THEN Null ELSE editingId
           /\ calls' = Append(Tail(calls), loadExpensesCall)
           /\ table' = table
    ]_vars

\* after two inserts and the UPDATE of an edit the form is cleared, no id is
\* under edit and the reload is on its way, the list still being the old one
C10_Witness ==
  /\ Len(table) = 2
  /\ Len(expenses) = 2
  /\ expenses # SelectAllDesc(table)
  /\ calls = <<loadExpensesCall>>
  /\ amount = <<>> /\ category = <<>> /\ note = <<>>
  /\ editingId = Null

----------------------------------------------------------------------------
(* The claim about presses while calls are in flight, under SpecPresses *)

IsSave(c) == c.kind \in {"insert", "update"}

====
